---- MODULE Spec2Model ----
(***************************************************************************)
(* Model of src/App.tsx: the search-history logic of the App component.    *)
(*                                                                         *)
(* JavaScript runs one handler at a time; an `await` suspends the handler  *)
(* and lets other handlers run.  Every action below is one synchronous     *)
(* stretch of a handler: from its call (or from the resolution of the      *)
(* promise it awaits) up to its next await or its return.                  *)
(*                                                                         *)
(* A handler is a closure of the render that created it: the name          *)
(* `searchHistory` inside performSearch denotes the list of the render in  *)
(* which the handler was called, also after an await (field `hist` of a    *)
(* call).  The component re-renders between two events, so a handler that  *)
(* starts sees the current state.                                          *)
(*                                                                         *)
(* AsyncStorage executes its requests one after the other in the order     *)
(* they were issued (variable `writes` is that queue; the getItem of the   *)
(* startup load is ahead of every setItem).                                *)
(*                                                                         *)
(* handleDeleteHistory and handleDeleteAll are modelled as the component   *)
(* defines them, for every id and in every state: the render decides       *)
(* which buttons exist, the handlers do not depend on it.                  *)
(*                                                                         *)
(* The variables marked `history` record what happened (the calls that     *)
(* overlap, the starts of the process, the list last saved, the entries    *)
(* taken out); no action reads them to decide what the program does.       *)
(***************************************************************************)
EXTENDS Integers, Sequences, FiniteSets, TLC

VARIABLES
    searchQuery,    \* useState('')  : text of the input field
    searchHistory,  \* useState([])  : the in-memory history list
    isSearching,    \* useState(false)
    calls,          \* the performSearch calls: position, argument, closure
    storage,        \* AsyncStorage value under key 'searchHistory'
    writes,         \* setItem requests issued and not yet executed
    loadPc,         \* position of loadSearchHistory
    loadRes,        \* outcome of its getItem, once executed
    clock,          \* last value returned by Date.now()
    toast,          \* the Toast.show of the last step, ToastNone when none
    group,          \* history: the performSearch calls that overlap
    searches,       \* number of performSearch calls that passed `if (!text)`
    deletes,        \* number of handleDeleteHistory and handleDeleteAll calls
    boot,           \* history: the starts of the process, and the budgets then
    saved,          \* history: the list of the last setItem that succeeded
    removed         \* history: the entries the delete handlers took out

vars == <<searchQuery, searchHistory, isSearching, calls, storage, writes,
          loadPc, loadRes, clock, toast, group, searches, deletes,
          boot, saved, removed>>

\* ---------------------------------------------------------------- bounds
MaxSearches == 2    \* performSearch calls with a non-empty text in a run
MaxDeletes  == 1    \* handleDeleteHistory and handleDeleteAll calls in a run
MaxRestarts == 1    \* times the process is ended and started again in a run

\* ---------------------------------------------------------------- values
\* what the user types; "dogs" is the query of an entry of an earlier run;
\* encodeURIComponent returns for each of them
Texts     == {"", "cats"}
CallIds   == 1..MaxSearches
\* Date.now(): after the start as many values as there can be new entries
Times     == 0..(MaxSearches + 1)

\* interface SearchHistoryItem
SearchHistoryItem(t1, text, t2) ==
    [id |-> ToString(t1), query |-> text, timestamp |-> t2]

Ids == {ToString(t) : t \in Times}

ToastNone    == [type |-> "none",    text1 |-> ""]
ToastEmpty   == [type |-> "error",   text1 |-> "Please enter a search query"]
ToastSuccess == [type |-> "success", text1 |-> "Searching..."]
ToastFailed  == [type |-> "error",   text1 |-> "Failed to open search"]
ToastDeleted == [type |-> "info",    text1 |-> "Search history item deleted"]
ToastCleared == [type |-> "info",    text1 |-> "All search history cleared"]

\* ------------------------------------------------------- pure functions
\* JSON.stringify of a SearchHistoryItem[]: the fields of each item in
\* declaration order
JSONstringify(h) ==
    [kind  |-> "json",
     items |-> [i \in 1..Len(h) |-> <<h[i].id, h[i].query, h[i].timestamp>>]]

\* JSON.parse: throws on a text that is not JSON
ParseThrows(s) == s.kind # "json"
JSONparse(s) ==
    [i \in 1..Len(s.items) |->
        [id |-> s.items[i][1], query |-> s.items[i][2],
         timestamp |-> s.items[i][3]]]

Absent  == [kind |-> "absent", items |-> <<>>]   \* getItem gives null
Corrupt == [kind |-> "text",   items |-> <<>>]   \* a text that does not parse

\* `if (history)`: null is falsy, a non-empty string is truthy
Truthy(s) == s.kind # "absent"

\* Array.prototype.filter(item => item.id !== id)
RECURSIVE FilterOut(_, _)
FilterOut(h, id) ==
    IF h = <<>> THEN <<>>
    ELSE IF Head(h).id # id THEN <<Head(h)>> \o FilterOut(Tail(h), id)
         ELSE FilterOut(Tail(h), id)

\* ------------------------------------------------------------- helpers
IdleCall == [pc |-> "idle", text |-> "", hist |-> <<>>, ord |-> 0]
InFlight == {c \in CallIds : calls[c].pc # "idle"}

\* history of the performSearch calls in flight together, reset when the last
\* of them returns: `base` the list when the first was called, `texts` their
\* arguments in call order, `res` the outcome of each launch, `clean` that
\* the startup load was over when the first was called, that each was called
\* before any launch of the others resolved, and that handleDeleteHistory,
\* handleDeleteAll and loadSearchHistory have not set the list since
NoGroup  == [base |-> <<>>, texts |-> <<>>, res |-> <<>>, clean |-> TRUE]

\* history: another operation touches the list while searches are in flight
Disturb == IF InFlight # {} THEN [group EXCEPT !.clean = FALSE] ELSE group

\* history: the outcome of the launch of call c
Outcome(c, r) == [group EXCEPT !.res[calls[c].ord] = r]

\* history: call c leaves; the group ends with its last call
Leave(c, g) == IF InFlight = {c} THEN NoGroup ELSE g

\* history: the process was started once, nothing was called yet
FirstBoot == [restarts |-> 0, searches |-> 0, deletes |-> 0]

\* history: no setItem of this or an earlier run of the model succeeded yet
NoneSaved == [written |-> FALSE, list |-> <<>>]

\* the entries of a list
Entries(h) == {h[i] : i \in DOMAIN h}

\* --------------------------------------------------------------- Init
\* what an earlier run of the program may have left in storage
StoredLists ==
    { <<SearchHistoryItem(1, "dogs", 1)>> }

Init ==
    /\ searchQuery = ""
    /\ searchHistory = <<>>
    /\ isSearching = FALSE
    /\ calls = [c \in CallIds |-> IdleCall]
    /\ storage \in {Absent, Corrupt} \cup {JSONstringify(h) : h \in StoredLists}
    /\ writes = <<>>
    /\ loadPc = "reading"          \* useEffect(() => loadSearchHistory(), [])
    /\ loadRes = [ok |-> FALSE, val |-> Absent]
    /\ clock = 2                   \* later than every stored timestamp
    /\ toast = ToastNone
    /\ group = NoGroup
    /\ searches = 0
    /\ deletes = 0
    /\ boot = FirstBoot
    /\ saved = NoneSaved
    /\ removed = {}

\* ------------------------------------------------------------ actions
\* onChangeText={setSearchQuery}
TypeText(t) ==
    /\ searchQuery' = t
    /\ toast' = ToastNone
    /\ UNCHANGED <<searchHistory, isSearching, calls, storage, writes,
                   loadPc, loadRes, clock, group, searches, deletes,
                   boot, saved, removed>>

\* PerformSearch without the check `if (!text)`
PerformSearchUnchecked(text) ==
    /\ searches < MaxSearches
    /\ searches' = searches + 1
    /\ LET c == CHOOSE i \in CallIds \ InFlight :
                    \A j \in CallIds \ InFlight : i <= j
       IN /\ calls' = [calls EXCEPT ![c] =
                [pc |-> "launch", text |-> text, hist |-> searchHistory,
                 ord |-> Len(group.texts) + 1]]
          /\ group' = [group EXCEPT !.texts = Append(@, text),
                                    !.res   = Append(@, "pending")]
    /\ isSearching' = TRUE
    /\ toast' = ToastNone
    /\ UNCHANGED <<searchQuery, searchHistory, storage, writes,
                   loadPc, loadRes, clock, deletes, boot, saved, removed>>

\* performSearch(text) from its call to `await Linking.openURL(searchUrl)`
PerformSearch(text) ==
    IF text = "" THEN
        \* if (!text) { Toast.show(error); return; }
        /\ toast' = ToastEmpty
        /\ UNCHANGED <<searchQuery, searchHistory, isSearching, calls,
                       storage, writes, loadPc, loadRes, clock, group,
                       searches, deletes, boot, saved, removed>>
    ELSE
        /\ searches < MaxSearches
        /\ searches' = searches + 1
        /\ LET c == CHOOSE i \in CallIds \ InFlight :
                        \A j \in CallIds \ InFlight : i <= j
               g == IF InFlight = {}
                    THEN [base  |-> searchHistory,
                          texts |-> <<text>>,
                          res   |-> <<"pending">>,
                          clean |-> loadPc = "done"]
                    ELSE [group EXCEPT
                            !.texts = Append(@, text),
                            !.res   = Append(@, "pending"),
                            !.clean = @ /\ \A i \in DOMAIN group.res :
                                                group.res[i] = "pending"]
           IN /\ calls' = [calls EXCEPT ![c] =
                    [pc |-> "launch", text |-> text, hist |-> searchHistory,
                     ord |-> Len(g.texts)]]
              /\ group' = g
        /\ isSearching' = TRUE                   \* setIsSearching(true)
        /\ toast' = ToastNone
        /\ UNCHANGED <<searchQuery, searchHistory, storage, writes,
                       loadPc, loadRes, clock, deletes, boot, saved, removed>>

\* const handleSearch = () => performSearch(searchQuery), from the keyboard
\* (onSubmitEditing={handleSearch})
SubmitEditing == PerformSearch(searchQuery)

\* ... and from the search button (onPress={handleSearch},
\* disabled={isSearching})
PressSearch == ~isSearching /\ PerformSearch(searchQuery)

\* onPress={() => handleSearchAgain(item.query)}
HandleSearchAgain(i) ==
    /\ i \in DOMAIN searchHistory
    /\ PerformSearch(searchHistory[i].query)

\* LaunchOk with the new entry put behind the list instead of in front
LaunchOkAppends(c, t1, t2) ==
    /\ calls[c].pc = "launch"
    /\ clock <= t1 /\ t1 <= t2
    /\ LET newHistoryItem == SearchHistoryItem(t1, calls[c].text, t2)
           newHistory     == calls[c].hist \o <<newHistoryItem>>
       IN /\ searchHistory' = newHistory
          /\ writes' = Append(writes, [val |-> JSONstringify(newHistory),
                                       list |-> newHistory, waiter |-> c])
    /\ clock' = t2
    /\ calls' = [calls EXCEPT ![c] = [IdleCall EXCEPT !.pc = "save"]]
    /\ group' = Outcome(c, "ok")
    /\ toast' = ToastNone
    /\ UNCHANGED <<searchQuery, isSearching, storage, loadPc, loadRes,
                   searches, deletes, boot, saved, removed>>

\* LaunchOk that hands saveSearchHistory the new entry alone instead of the
\* whole list
LaunchOkSavesDelta(c, t1, t2) ==
    /\ calls[c].pc = "launch"
    /\ clock <= t1 /\ t1 <= t2
    /\ LET newHistoryItem == SearchHistoryItem(t1, calls[c].text, t2)
           newHistory     == <<newHistoryItem>> \o calls[c].hist
       IN /\ searchHistory' = newHistory
          /\ writes' = Append(writes,
                            [val |-> JSONstringify(<<newHistoryItem>>),
                             list |-> <<newHistoryItem>>, waiter |-> c])
    /\ clock' = t2
    /\ calls' = [calls EXCEPT ![c] = [IdleCall EXCEPT !.pc = "save"]]
    /\ group' = Outcome(c, "ok")
    /\ toast' = ToastNone
    /\ UNCHANGED <<searchQuery, isSearching, storage, loadPc, loadRes,
                   searches, deletes, boot, saved, removed>>

\* Linking.openURL resolved: performSearch up to `await saveSearchHistory`,
\* which runs saveSearchHistory up to `await AsyncStorage.setItem`.  t1 and
\* t2 are what the two Date.now() return.  From here on the call reads
\* neither `text` nor `searchHistory` again.
LaunchOk(c, t1, t2) ==
    /\ calls[c].pc = "launch"
    /\ clock <= t1 /\ t1 <= t2
    /\ LET newHistoryItem == SearchHistoryItem(t1, calls[c].text, t2)
           newHistory     == <<newHistoryItem>> \o calls[c].hist
       IN /\ searchHistory' = newHistory
          /\ writes' = Append(writes, [val |-> JSONstringify(newHistory),
                                       list |-> newHistory, waiter |-> c])
    /\ clock' = t2
    /\ calls' = [calls EXCEPT ![c] = [IdleCall EXCEPT !.pc = "save"]]
    /\ group' = Outcome(c, "ok")
    /\ toast' = ToastNone
    /\ UNCHANGED <<searchQuery, isSearching, storage, loadPc, loadRes,
                   searches, deletes, boot, saved, removed>>

\* LaunchFail without the `finally` block
LaunchFailNoFinally(c) ==
    /\ calls[c].pc = "launch"
    /\ toast' = ToastFailed
    /\ calls' = [calls EXCEPT ![c] = IdleCall]
    /\ group' = Leave(c, Outcome(c, "fail"))
    /\ UNCHANGED <<searchQuery, searchHistory, isSearching, storage, writes,
                   loadPc, loadRes, clock, searches, deletes,
                   boot, saved, removed>>

\* Linking.openURL rejected: catch, finally
LaunchFail(c) ==
    /\ calls[c].pc = "launch"
    /\ toast' = ToastFailed
    /\ isSearching' = FALSE
    /\ calls' = [calls EXCEPT ![c] = IdleCall]
    /\ group' = Leave(c, Outcome(c, "fail"))
    /\ UNCHANGED <<searchQuery, searchHistory, storage, writes, loadPc,
                   loadRes, clock, searches, deletes, boot, saved, removed>>

\* WriteDone with a setItem under another key than the one getItem reads:
\* the value under 'searchHistory' stays what it was
WriteDoneOtherKey(ok) ==
    /\ writes # <<>>
    /\ loadPc # "reading"
    /\ storage' = storage
    /\ saved' = IF ok THEN [written |-> TRUE, list |-> Head(writes).list]
                      ELSE saved
    /\ writes' = Tail(writes)
    /\ LET c == Head(writes).waiter
       IN IF c = 0
          THEN /\ toast' = ToastNone
               /\ UNCHANGED <<searchQuery, isSearching, calls, group>>
          ELSE /\ searchQuery' = ""
               /\ toast' = ToastSuccess
               /\ isSearching' = FALSE
               /\ calls' = [calls EXCEPT ![c] = IdleCall]
               /\ group' = Leave(c, group)
    /\ UNCHANGED <<searchHistory, loadPc, loadRes, clock, searches, deletes,
                   boot, removed>>

\* WriteDone without the `finally` block
WriteDoneFlagStays(ok) ==
    /\ writes # <<>>
    /\ loadPc # "reading"
    /\ storage' = IF ok THEN Head(writes).val ELSE storage
    /\ saved' = IF ok THEN [written |-> TRUE, list |-> Head(writes).list]
                      ELSE saved
    /\ writes' = Tail(writes)
    /\ LET c == Head(writes).waiter
       IN IF c = 0
          THEN /\ toast' = ToastNone
               /\ UNCHANGED <<searchQuery, isSearching, calls, group>>
          ELSE /\ searchQuery' = ""
               /\ toast' = ToastSuccess
               /\ isSearching' = isSearching
               /\ calls' = [calls EXCEPT ![c] = IdleCall]
               /\ group' = Leave(c, group)
    /\ UNCHANGED <<searchHistory, loadPc, loadRes, clock, searches, deletes,
                   boot, removed>>

\* WriteDone with saveSearchHistory lacking its try/catch: the rejection of
\* setItem reaches the catch of the performSearch that awaits it
WriteDoneUncaught(ok) ==
    /\ writes # <<>>
    /\ loadPc # "reading"
    /\ storage' = IF ok THEN Head(writes).val ELSE storage
    /\ saved' = IF ok THEN [written |-> TRUE, list |-> Head(writes).list]
                      ELSE saved
    /\ writes' = Tail(writes)
    /\ LET c == Head(writes).waiter
       IN IF c = 0
          THEN /\ toast' = ToastNone
               /\ UNCHANGED <<searchQuery, isSearching, calls, group>>
          ELSE /\ searchQuery' = IF ok THEN "" ELSE searchQuery
               /\ toast' = IF ok THEN ToastSuccess ELSE ToastFailed
               /\ isSearching' = FALSE
               /\ calls' = [calls EXCEPT ![c] = IdleCall]
               /\ group' = Leave(c, group)
    /\ UNCHANGED <<searchHistory, loadPc, loadRes, clock, searches, deletes,
                   boot, removed>>

\* AsyncStorage executes the oldest setItem; saveSearchHistory catches a
\* rejection and returns either way; a performSearch that awaits it runs on
\* to its end: setSearchQuery(''), Toast.show(success), finally
WriteDone(ok) ==
    /\ writes # <<>>
    /\ loadPc # "reading"
    /\ storage' = IF ok THEN Head(writes).val ELSE storage
    /\ saved' = IF ok THEN [written |-> TRUE, list |-> Head(writes).list]
                      ELSE saved
    /\ writes' = Tail(writes)
    /\ LET c == Head(writes).waiter
       IN IF c = 0
          THEN /\ toast' = ToastNone
               /\ UNCHANGED <<searchQuery, isSearching, calls, group>>
          ELSE /\ searchQuery' = ""
               /\ toast' = ToastSuccess
               /\ isSearching' = FALSE
               /\ calls' = [calls EXCEPT ![c] = IdleCall]
               /\ group' = Leave(c, group)
    /\ UNCHANGED <<searchHistory, loadPc, loadRes, clock, searches, deletes,
                   boot, removed>>

\* HandleDeleteHistory by splice(findIndex(...), 1): index -1 of an id that is
\* not there removes the last entry
HandleDeleteHistorySplice(id) ==
    /\ deletes < MaxDeletes
    /\ deletes' = deletes + 1
    /\ LET newHistory == IF \E i \in DOMAIN searchHistory :
                                searchHistory[i].id = id
                         THEN FilterOut(searchHistory, id)
                         ELSE SubSeq(searchHistory, 1, Len(searchHistory) - 1)
       IN /\ searchHistory' = newHistory
          /\ writes' = Append(writes, [val |-> JSONstringify(newHistory),
                                       list |-> newHistory, waiter |-> 0])
          /\ removed' = removed \cup (Entries(searchHistory)
                                        \ Entries(newHistory))
    /\ toast' = ToastDeleted
    /\ group' = Disturb
    /\ UNCHANGED <<searchQuery, isSearching, calls, storage, loadPc, loadRes,
                   clock, searches, boot, saved>>

\* handleDeleteHistory(id)
HandleDeleteHistory(id) ==
    /\ deletes < MaxDeletes
    /\ deletes' = deletes + 1
    /\ LET newHistory == FilterOut(searchHistory, id)
       IN /\ searchHistory' = newHistory
          /\ writes' = Append(writes, [val |-> JSONstringify(newHistory),
                                       list |-> newHistory, waiter |-> 0])
          /\ removed' = removed \cup (Entries(searchHistory)
                                        \ Entries(newHistory))
    /\ toast' = ToastDeleted
    /\ group' = Disturb
    /\ UNCHANGED <<searchQuery, isSearching, calls, storage, loadPc, loadRes,
                   clock, searches, boot, saved>>

\* HandleDeleteAll that saves the list of the render instead of the empty one
HandleDeleteAllSavesOld ==
    /\ deletes < MaxDeletes
    /\ deletes' = deletes + 1
    /\ searchHistory' = <<>>
    /\ writes' = Append(writes, [val |-> JSONstringify(searchHistory),
                                 list |-> searchHistory, waiter |-> 0])
    /\ removed' = removed \cup Entries(searchHistory)
    /\ toast' = ToastCleared
    /\ group' = Disturb
    /\ UNCHANGED <<searchQuery, isSearching, calls, storage, loadPc, loadRes,
                   clock, searches, boot, saved>>

\* handleDeleteAll()
HandleDeleteAll ==
    /\ deletes < MaxDeletes
    /\ deletes' = deletes + 1
    /\ searchHistory' = <<>>
    /\ writes' = Append(writes, [val |-> JSONstringify(<<>>),
                                 list |-> <<>>, waiter |-> 0])
    /\ removed' = removed \cup Entries(searchHistory)
    /\ toast' = ToastCleared
    /\ group' = Disturb
    /\ UNCHANGED <<searchQuery, isSearching, calls, storage, loadPc, loadRes,
                   clock, searches, boot, saved>>

\* AsyncStorage executes the getItem of loadSearchHistory
LoadRead(ok) ==
    /\ loadPc = "reading"
    /\ loadPc' = "deliver"
    /\ loadRes' = IF ok THEN [ok |-> TRUE, val |-> storage]
                        ELSE [ok |-> FALSE, val |-> Absent]
    /\ toast' = ToastNone
    /\ UNCHANGED <<searchQuery, searchHistory, isSearching, calls, storage,
                   writes, clock, group, searches, deletes,
                   boot, saved, removed>>

\* LoadDeliver with a catch block that shows the error to the user
LoadDeliverShowsError ==
    /\ loadPc = "deliver"
    /\ loadPc' = "done"
    /\ loadRes' = [loadRes EXCEPT !.val = Absent]
    /\ IF loadRes.ok /\ Truthy(loadRes.val) /\ ~ParseThrows(loadRes.val)
       THEN /\ searchHistory' = JSONparse(loadRes.val)
            /\ group' = Disturb
       ELSE UNCHANGED <<searchHistory, group>>
    /\ toast' = IF ~loadRes.ok \/ (Truthy(loadRes.val)
                                     /\ ParseThrows(loadRes.val))
                THEN ToastFailed ELSE ToastNone
    /\ UNCHANGED <<searchQuery, isSearching, calls, storage, writes,
                   clock, searches, deletes, boot, saved, removed>>

\* loadSearchHistory after `await AsyncStorage.getItem`: the value read is
\* not used again afterwards
LoadDeliver ==
    /\ loadPc = "deliver"
    /\ loadPc' = "done"
    /\ loadRes' = [loadRes EXCEPT !.val = Absent]
    /\ IF loadRes.ok /\ Truthy(loadRes.val) /\ ~ParseThrows(loadRes.val)
       THEN /\ searchHistory' = JSONparse(loadRes.val)
            /\ group' = Disturb
       ELSE UNCHANGED <<searchHistory, group>>
    /\ toast' = ToastNone
    /\ UNCHANGED <<searchQuery, isSearching, calls, storage, writes,
                   clock, searches, deletes, boot, saved, removed>>

\* The process ends (the user or the system closes the application) and is
\* started again: the component is constructed anew, every useState has its
\* initial value, the handlers that were suspended and the requests that
\* AsyncStorage had not executed are gone, useEffect calls
\* loadSearchHistory.  What AsyncStorage holds stays, and time goes on.
Restart ==
    /\ boot.restarts < MaxRestarts
    /\ boot' = [restarts |-> boot.restarts + 1,
                searches |-> searches, deletes |-> deletes]
    /\ searchQuery' = ""
    /\ searchHistory' = <<>>
    /\ isSearching' = FALSE
    /\ calls' = [c \in CallIds |-> IdleCall]
    /\ writes' = <<>>
    /\ loadPc' = "reading"
    /\ loadRes' = [ok |-> FALSE, val |-> Absent]
    /\ toast' = ToastNone
    /\ group' = NoGroup
    /\ removed' = {}
    /\ UNCHANGED <<storage, clock, searches, deletes, saved>>

\* every step but the rejection of a setItem
NextWritesOk ==
    \/ \E t \in Texts : TypeText(t)
    \/ SubmitEditing
    \/ PressSearch
    \/ \E i \in 1..(MaxSearches + 1) : HandleSearchAgain(i)
    \/ \E c \in CallIds : \E t1, t2 \in Times : LaunchOk(c, t1, t2)
    \/ \E c \in CallIds : LaunchFail(c)
    \/ WriteDone(TRUE)
    \/ \E id \in Ids : HandleDeleteHistory(id)
    \/ HandleDeleteAll
    \/ \E ok \in BOOLEAN : LoadRead(ok)
    \/ LoadDeliver

Next ==
    \/ NextWritesOk
    \/ WriteDone(FALSE)

Spec == Init /\ [][Next]_vars

\* the runs in which AsyncStorage rejects no setItem
SpecWritesOk == Init /\ [][NextWritesOk]_vars

\* Every promise a handler awaits is settled in the end: Linking.openURL
\* resolves or rejects, AsyncStorage executes the request at the head of its
\* queue, and the handler that awaits runs on when its promise is settled.
Fairness ==
    /\ \A c \in CallIds :
          WF_vars(LaunchFail(c) \/ \E t1, t2 \in Times : LaunchOk(c, t1, t2))
    /\ WF_vars(WriteDone(TRUE) \/ WriteDone(FALSE))
    /\ WF_vars(\E ok \in BOOLEAN : LoadRead(ok))
    /\ WF_vars(LoadDeliver)

SpecFair == Init /\ [][Next]_vars /\ Fairness

\* the runs across a restart of the process
NextRestart ==
    \/ Next
    \/ Restart

SpecRestart == Init /\ [][NextRestart]_vars

\* ------------------------------------------------------------- claims
HasId(h, id) == \E i \in DOMAIN h : h[i].id = id
RemoveAt(h, k) == SubSeq(h, 1, k - 1) \o SubSeq(h, k + 1, Len(h))
LastCallReturns == group # NoGroup /\ group' = NoGroup

\* C1: a performSearch with a non-empty text whose launch succeeds and that
\* no other operation overlaps ends with the list equal to the new entry
\* followed by the list H of when it was called: one longer, the new entry
\* first with the submitted text as its query, H behind it unchanged.
C1_SubmitPrepends ==
    [][(/\ LastCallReturns
        /\ group.clean
        /\ group.res = <<"ok">>)
       => /\ Len(searchHistory') = Len(group.base) + 1
          /\ searchHistory'[1].query = group.texts[1]
          /\ Tail(searchHistory') = group.base]_vars

\* the launch of a lone search succeeded on a list that already holds an
\* entry with the same query text
C1_Witness ==
    /\ group.clean
    /\ group.res = <<"ok">>
    /\ group.base # <<>>
    /\ group.base[1].query = group.texts[1]
    /\ Len(searchHistory) = Len(group.base) + 1

\* the arguments of the calls of g whose launch succeeded, last called first
RECURSIVE OkTexts(_, _)
OkTexts(g, i) ==
    IF i = 0 THEN <<>>
    ELSE (IF g.res[i] = "ok" THEN <<g.texts[i]>> ELSE <<>>) \o OkTexts(g, i - 1)

\* C2: when performSearch is called twice with non-empty texts, the second
\* time before the launch of the first resolved, then once both returned the
\* list has grown by one entry per call whose launch succeeded, the entry of
\* the later call in front of the entry of the earlier one, on top of the
\* list of before.
C2_OverlappingSearchesAllKept ==
    [][(/\ LastCallReturns
        /\ group.clean
        /\ Len(group.texts) = 2)
       => LET oks == OkTexts(group, Len(group.texts))
          IN /\ Len(searchHistory') = Len(group.base) + Len(oks)
             /\ \A i \in 1..Len(oks) : searchHistory'[i].query = oks[i]
             /\ SubSeq(searchHistory', Len(oks) + 1, Len(searchHistory'))
                    = group.base]_vars

\* the fire-and-forget setItem requests of handleDeleteHistory and
\* handleDeleteAll that are still queued
PendingDeleteWrites == {i \in DOMAIN writes : writes[i].waiter = 0}

\* C3: at most one of performSearch, handleDeleteHistory and handleDeleteAll
\* is in flight (called and not yet done, its setItem included).
C3_OneMutationInFlight ==
    Cardinality(InFlight) + Cardinality(PendingDeleteWrites) <= 1

\* C4: whenever nothing is pending (no performSearch, no setItem, no startup
\* load) and no setItem was rejected, the stored list equals the list in
\* memory.  The cases of a stored value that is no list and of a startup read
\* that failed are left out, in the claim's favour.
C4_StoredEqualsMemory ==
    (/\ InFlight = {}
     /\ writes = <<>>
     /\ loadPc = "done"
     /\ loadRes.ok
     /\ storage.kind = "json")
    => JSONparse(storage) = searchHistory

NoDupIds(h) == \A i, j \in DOMAIN h : i # j => h[i].id # h[j].id

\* C5: no two entries of the list in memory, and none of the stored list,
\* have the same id.
C5_UniqueIds ==
    /\ NoDupIds(searchHistory)
    /\ storage.kind = "json" => NoDupIds(JSONparse(storage))

\* C6: handleDeleteHistory(id) with an id of the list removes exactly one
\* entry, one that has this id, and leaves the others in their order.
C6_DeleteRemovesExactlyOne ==
    [][\A id \in Ids :
        (HandleDeleteHistory(id) /\ HasId(searchHistory, id))
        => \E k \in DOMAIN searchHistory :
              /\ searchHistory[k].id = id
              /\ searchHistory' = RemoveAt(searchHistory, k)]_vars

\* C7: handleDeleteHistory(id) with an id that is not in the list leaves the
\* list as it is and reports no error.
C7_DeleteAbsentIsNoOp ==
    [][\A id \in Ids :
        (HandleDeleteHistory(id) /\ ~HasId(searchHistory, id))
        => /\ searchHistory' = searchHistory
           /\ toast'.type # "error"
           /\ UNCHANGED <<isSearching, calls, storage>>]_vars

\* no search was made, so the list only ever held what the startup load put
\* there; the last step was a handleDeleteHistory and the list is not empty:
\* its id was not in the list
C7_Witness ==
    /\ toast = ToastDeleted
    /\ searches = 0
    /\ searchHistory # <<>>

\* C8: handleDeleteAll leaves the list empty whatever it was, the empty list
\* included (a second handleDeleteAll changes nothing), and what it hands to
\* setItem is the empty list.
C8_ClearAllEmpties ==
    [][HandleDeleteAll
       => /\ searchHistory' = <<>>
          /\ (searchHistory = <<>> => searchHistory' = searchHistory)
          /\ writes' # <<>>
          /\ JSONparse(writes'[Len(writes')].val) = <<>>
          /\ ~ParseThrows(writes'[Len(writes')].val)]_vars

\* handleDeleteAll was the last step, on a list that was empty: no search
\* was made and the startup load has not delivered
C8_Witness ==
    /\ toast = ToastCleared
    /\ searches = 0
    /\ loadPc # "done"
    /\ searchHistory = <<>>

\* C9: performSearch with the empty text changes nothing but the
\* notification, which is an error: not the list, no launch, no setItem, and
\* isSearching stays as it is.
C9_EmptyQueryRejected ==
    [][((SubmitEditing \/ PressSearch) /\ searchQuery = "")
       => /\ toast'.type = "error"
          /\ UNCHANGED <<searchQuery, searchHistory, isSearching, calls,
                         storage, writes, loadPc, loadRes, clock>>]_vars

\* the empty text was submitted while an earlier search is in flight
C9_Witness ==
    /\ toast = ToastEmpty
    /\ InFlight # {}

\* C10: when the launch of a performSearch is rejected, the call changes
\* neither the list in memory nor the stored one and issues no setItem, from
\* its call to its return; it notifies an error (never success) and
\* isSearching is false when it returns.
C10_LaunchFailureChangesNothing ==
    [][/\ \A c \in CallIds :
            LaunchFail(c)
            => /\ UNCHANGED <<searchHistory, storage, writes>>
               /\ toast'.type = "error"
               /\ isSearching' = FALSE
               /\ calls'[c].pc = "idle"
       /\ (SubmitEditing \/ PressSearch
             \/ \E i \in DOMAIN searchHistory : HandleSearchAgain(i))
            => UNCHANGED <<searchHistory, storage, writes>>]_vars

\* the launch of a search on a list that is not empty was just rejected
C10_Witness ==
    /\ toast = ToastFailed
    /\ searchHistory # <<>>
    /\ InFlight = {}

\* nothing but typing and empty submissions was done since the process
\* started
QuietSinceBoot == searches = boot.searches /\ deletes = boot.deletes

\* C11: when a setItem of a list L succeeded, the process is then started
\* again and the startup load completes (its getItem succeeding) before any
\* other operation, the list in memory is L: the same entries, with the same
\* id, query and timestamp, in the same order.
C11_RoundTripAcrossRestart ==
    [][(/\ LoadDeliver
        /\ boot.restarts > 0
        /\ QuietSinceBoot
        /\ loadRes.ok
        /\ saved.written)
       => searchHistory' = saved.list]_vars

\* a list of two entries was saved, the process started again and the load
\* brought the two back
C11_Witness ==
    /\ boot.restarts > 0
    /\ QuietSinceBoot
    /\ loadPc = "done"
    /\ loadRes.ok
    /\ saved.written
    /\ Len(saved.list) = 2
    /\ searchHistory = saved.list
    /\ searchHistory[1].id # ToString(searchHistory[1].timestamp)

\* C12: provided Linking.openURL and setItem are settled in the end, every
\* performSearch that passed `if (!text)` returns, and isSearching is false
\* when it does; whenever no performSearch is in flight isSearching is
\* false, so it stays false until the next one is called.
C12_BusyFlagNeverSticks ==
    /\ \A c \in CallIds :
          (calls[c].pc # "idle") ~> (calls[c].pc = "idle" /\ ~isSearching)
    /\ [](InFlight = {} => ~isSearching)

\* the last performSearch in flight returned after its setItem was executed
C12_Witness ==
    /\ toast = ToastSuccess
    /\ InFlight = {}
    /\ ~isSearching
    /\ searches = MaxSearches

\* C13: isSearching is true in every state in which a performSearch that
\* passed `if (!text)` has not returned yet (it awaits Linking.openURL or
\* saveSearchHistory), also when several such calls overlap.
C13_BusyWhileSearchInFlight ==
    InFlight # {} => isSearching

\* C14: isSearching is never false while a setItem issued by performSearch,
\* handleDeleteHistory or handleDeleteAll has not been executed.  Left out,
\* in the claim's favour, are the states in which the delete handlers have
\* taken no entry out of the list (a handler called on a list without the
\* entry, which no button of the screen does).
C14_WriteDoneBeforeFlagClears ==
    (~isSearching /\ removed # {}) => writes = <<>>

\* C15: every setItem carries the whole list, never a part of it: what
\* performSearch, handleDeleteHistory and handleDeleteAll hand to
\* saveSearchHistory is the list they set in memory in the same step; the
\* stored value changes only to the value of the request AsyncStorage
\* executes, so once a setItem succeeded the stored value is a list that was
\* in memory.
C15_WritesCarryFullList ==
    /\ [][Len(writes') > Len(writes)
          => /\ writes'[Len(writes')].list = searchHistory'
             /\ writes'[Len(writes')].val = JSONstringify(searchHistory')]_vars
    /\ [][storage' # storage
          => /\ writes # <<>>
             /\ storage' = Head(writes).val
             /\ Head(writes).val = JSONstringify(Head(writes).list)]_vars
    /\ [](saved.written => storage = JSONstringify(saved.list))

\* performSearch has just handed saveSearchHistory a list of two entries
C15_Witness ==
    /\ writes # <<>>
    /\ writes[Len(writes)].waiter # 0
    /\ Len(writes[Len(writes)].list) = 2
    /\ writes[Len(writes)].list = searchHistory

\* C16: a setItem that is rejected neither holds back nor undoes the update
\* of the list in memory: the list is set when the request is issued and the
\* execution of the request leaves it as it is, rejected or not; a rejection
\* shows no error, and the performSearch that awaits it still shows its
\* success, returns and leaves isSearching false.
C16_WriteFailureIsSilent ==
    /\ [][(WriteDone(TRUE) \/ WriteDone(FALSE))
          => searchHistory' = searchHistory]_vars
    /\ [][WriteDone(FALSE)
          => /\ toast'.type # "error"
             /\ Head(writes).waiter # 0
                  => /\ toast' = ToastSuccess
                     /\ ~isSearching'
                     /\ calls'[Head(writes).waiter].pc = "idle"]_vars

\* nothing was stored at the start and nothing is now, yet a performSearch
\* has just returned with its entry in the list: its setItem was rejected
C16_Witness ==
    /\ storage = Absent
    /\ toast = ToastSuccess
    /\ ~isSearching
    /\ writes = <<>>
    /\ searchHistory # <<>>
    /\ searchHistory[1].query = "cats"

\* the getItem of the load succeeded and returned a well-formed list
ReadWellFormed == loadRes.ok /\ loadRes.val.kind = "json"

\* C17, as stated: when nothing is stored, the getItem fails or the stored
\* value does not parse, the list in memory is empty once the load has
\* completed and nothing is shown; when a well-formed list is stored, the
\* list in memory is that list once the load has completed.
C17_LoadDegradesToEmpty ==
    [][LoadDeliver
       => /\ toast' = ToastNone
          /\ ReadWellFormed => searchHistory' = JSONparse(loadRes.val)
          /\ ~ReadWellFormed => searchHistory' = <<>>]_vars

\* C17, amended: when nothing is stored, the getItem fails or the stored
\* value does not parse, the load leaves the list in memory as it is, which
\* is the empty list unless a performSearch was called before; nothing is
\* shown, nothing else changes (no write, isSearching and the calls as they
\* were) and the load is over.  When the getItem returns a well-formed list,
\* the list in memory is that list once the load has completed, and it is
\* the stored list when no operation preceded the load.
C17_LoadDegradesOrInitializes ==
    [][LoadDeliver
       => /\ toast' = ToastNone
          /\ loadPc' = "done"
          /\ UNCHANGED <<searchQuery, isSearching, calls, writes, storage>>
          /\ ReadWellFormed => searchHistory' = JSONparse(loadRes.val)
          /\ (ReadWellFormed /\ QuietSinceBoot)
                => JSONstringify(searchHistory') = storage
          /\ ~ReadWellFormed => searchHistory' = searchHistory
          /\ (~ReadWellFormed /\ searches = boot.searches)
                => searchHistory' = <<>>]_vars

\* the load has completed on a stored value that does not parse: the list
\* is empty and nothing is shown
C17_Witness ==
    /\ loadPc = "done"
    /\ loadRes.ok
    /\ storage = Corrupt
    /\ QuietSinceBoot
    /\ searchHistory = <<>>
    /\ toast = ToastNone
    /\ writes = <<>>

\* the entries of h that are not made in this step: a performSearch whose
\* launch just resolved puts the entry it makes in front
Carried(h) ==
    IF \E c \in CallIds : \E t1, t2 \in Times : LaunchOk(c, t1, t2)
    THEN Entries(Tail(h))
    ELSE Entries(h)

\* C18: an entry that handleDeleteHistory or handleDeleteAll took out of the
\* list never comes back while the process runs, neither into the list in
\* memory nor into a value handed to setItem, also when it was taken out
\* while a performSearch awaited its launch.
C18_NoResurrection ==
    [][\A e \in removed \ Entries(searchHistory) :
          /\ e \notin Carried(searchHistory')
          /\ Len(writes') > Len(writes)
               => e \notin Carried(writes'[Len(writes')].list)]_vars

\* C19: when the list in memory holds entries by the time the getItem of the
\* startup load is delivered (a performSearch put them there), the load
\* leaves the list as it is.
C19_LoadOnlyInitializes ==
    [][(LoadDeliver /\ searchHistory # <<>>)
       => searchHistory' = searchHistory]_vars

====
